---- MODULE Spec2Model ----
(***************************************************************************)
(* Model of the vimbax_python_collections grab scripts.                    *)
(*                                                                         *)
(*   roi  : src/vimbax/asynchronous_grab_opencv_roi.py                     *)
(*          capture callback -> display_queue (Queue(10)) -> consumer loop *)
(*          of main()                                                      *)
(*   tiff : src/VmbPy.202503/asynchronous_grab_opencv_12bit_rgb_tiff.py    *)
(*          capture callback converts, saves and shows the frame itself;   *)
(*          main() waits on shutdown_event                                 *)
(*                                                                         *)
(* Two threads run in each script: the main thread (main) and the driver's *)
(* capture thread, which calls Handler.__call__ once per frame event.      *)
(* The driver owns a pool of buffer_count frames; a frame is lent to the   *)
(* application from its delivery until cam.queue_frame(frame).             *)
(***************************************************************************)
EXTENDS Integers, Sequences, FiniteSets, TLC

\* ---------------------------------------------------------------- bounds
\* number of frame events the camera produces in a run
MaxFrames == 11
\* number of those that are delivered with a status other than Complete
MaxBadFrames == 1
\* number of keys the user presses in a run
MaxKeyPresses == 2
\* longest list of camera formats tried on setup_pixel_format
MaxFormats == 3
\* largest number of command line arguments
MaxArgs == 2
\* largest width and height of the small frames tried on the raw conversion
MaxSmallDim == 2

\* ------------------------------------------------------ program constants
\* Queue(10)
QueueSize == 10
\* cam.start_streaming(handler=handler, buffer_count=10)
BufferCount == 10
ENTER_KEY_CODE == 13
\* cv2.waitKey returns -1 when no key was pressed within the delay
NoKey == -1
\* some key other than ENTER (ESC)
OtherKey == 27

Keys == {NoKey, ENTER_KEY_CODE, OtherKey}

\* FrameStatus of a delivered frame
Complete == "Complete"
FrameStatus == {"Complete", "Incomplete", "Aborted", "TimedOut"}

\* ---------------------------------------------------------- pixel formats
opencv_display_format == "Bgr8"
NoFormat == "None"
COLOR_PIXEL_FORMATS == {"Bgr8", "Rgb8", "BayerRG12", "Yuv411"}
MONO_PIXEL_FORMATS == {"Mono8", "Mono10", "Mono12", "Mono14"}
PixelFormat == COLOR_PIXEL_FORMATS \cup MONO_PIXEL_FORMATS

\* f.get_convertible_formats(): the formats the image transform library
\* converts f to (Yuv411 and Mono14 stand for formats without a Bgr8 path)
get_convertible_formats(f) ==
    IF f \in {"Yuv411", "Mono14"} THEN {"Mono8"} \ {f}
    ELSE {"Bgr8", "Rgb8", "Mono8"} \ {f}

RECURSIVE SeqFilter(_, _)
\* the elements of the tuple s that are in the set S, in the order of s
SeqFilter(s, S) ==
    IF s = <<>> THEN <<>>
    ELSE IF Head(s) \in S THEN <<Head(s)>> \o SeqFilter(Tail(s), S)
         ELSE SeqFilter(Tail(s), S)

Range(s) == {s[i] : i \in 1..Len(s)}

\* intersect_pixel_formats(fmts1, fmts2): the formats of fmts1 that are in fmts2
intersect_pixel_formats(fmts1, fmts2) == SeqFilter(fmts1, fmts2)

\* tuple(f for f in fmts if opencv_display_format in f.get_convertible_formats())
convertible_formats(fmts) ==
    SeqFilter(fmts, {f \in PixelFormat : opencv_display_format \in get_convertible_formats(f)})


\* ------------------------------------------------------ setup_pixel_format
\* The outcome of setup_pixel_format: the format handed to cam.set_pixel_format
\* (NoFormat when none is set) and how the function ends:
\* "ok", "abort" (sys.exit(1)) or "IndexError" (uncaught exception).
FormatOutcome(fmt, how) == [set |-> fmt, result |-> how]

\* opencv_display_format in cam_formats
supports_display_format(fmts) == opencv_display_format \in Range(fmts)

\* setup_pixel_format with the first two branches swapped: a convertible
\* color format is taken before the display format itself is looked for
setup_pixel_format_color_first(fmts) ==
    LET convertible_color_formats ==
            convertible_formats(intersect_pixel_formats(fmts, COLOR_PIXEL_FORMATS))
        convertible_mono_formats ==
            convertible_formats(intersect_pixel_formats(fmts, MONO_PIXEL_FORMATS))
    IN  IF convertible_color_formats # <<>>
            THEN FormatOutcome(convertible_color_formats[1], "ok")
        ELSE IF supports_display_format(fmts)
            THEN FormatOutcome(opencv_display_format, "ok")
        ELSE IF convertible_mono_formats # <<>>
            THEN IF Len(convertible_mono_formats) >= 3
                    THEN FormatOutcome(convertible_mono_formats[3], "ok")
                    ELSE FormatOutcome(NoFormat, "IndexError")
        ELSE FormatOutcome(NoFormat, "abort")

\* setup_pixel_format that falls back to the display format instead of
\* aborting when the camera has no usable format
setup_pixel_format_no_abort(fmts) ==
    LET convertible_color_formats ==
            convertible_formats(intersect_pixel_formats(fmts, COLOR_PIXEL_FORMATS))
        convertible_mono_formats ==
            convertible_formats(intersect_pixel_formats(fmts, MONO_PIXEL_FORMATS))
    IN  IF supports_display_format(fmts)
            THEN FormatOutcome(opencv_display_format, "ok")
        ELSE IF convertible_color_formats # <<>>
            THEN FormatOutcome(convertible_color_formats[1], "ok")
        ELSE IF convertible_mono_formats # <<>>
            THEN IF Len(convertible_mono_formats) >= 3
                    THEN FormatOutcome(convertible_mono_formats[3], "ok")
                    ELSE FormatOutcome(NoFormat, "IndexError")
        ELSE FormatOutcome(opencv_display_format, "ok")

\* roi script, lines 162-194
setup_pixel_format_roi(fmts) ==
    LET cam_color_formats == intersect_pixel_formats(fmts, COLOR_PIXEL_FORMATS)
        convertible_color_formats == convertible_formats(cam_color_formats)
        cam_mono_formats == intersect_pixel_formats(fmts, MONO_PIXEL_FORMATS)
        convertible_mono_formats == convertible_formats(cam_mono_formats)
    IN  IF supports_display_format(fmts)
            THEN FormatOutcome(opencv_display_format, "ok")
        ELSE IF convertible_color_formats # <<>>
            THEN FormatOutcome(convertible_color_formats[1], "ok")
        ELSE IF convertible_mono_formats # <<>>
            \* cam.set_pixel_format(convertible_mono_formats[2]): the third
            \* element of the tuple (Python index 2)
            THEN IF Len(convertible_mono_formats) >= 3
                    THEN FormatOutcome(convertible_mono_formats[3], "ok")
                    ELSE FormatOutcome(NoFormat, "IndexError")
        ELSE FormatOutcome(NoFormat, "abort")

\* tiff script, lines 119-143
setup_pixel_format_tiff(fmts) ==
    LET cam_color_formats == intersect_pixel_formats(fmts, COLOR_PIXEL_FORMATS)
        convertible_color_formats == convertible_formats(cam_color_formats)
        cam_mono_formats == intersect_pixel_formats(fmts, MONO_PIXEL_FORMATS)
        convertible_mono_formats == convertible_formats(cam_mono_formats)
    IN  IF supports_display_format(fmts)
            THEN FormatOutcome(opencv_display_format, "ok")
        ELSE IF convertible_color_formats # <<>>
            THEN FormatOutcome(convertible_color_formats[1], "ok")
        ELSE IF convertible_mono_formats # <<>>
            THEN FormatOutcome(convertible_mono_formats[1], "ok")
        ELSE FormatOutcome(NoFormat, "abort")

\* ------------------------------------------- raw conversion of the tiff script
\* Outcome of lines 167-219 for a frame of the given pixel format and geometry:
\* "ok", or the exception that ends the callback.
RawConversion(fmt, width, height, buffer_size) ==
    \* frame.convert_pixel_format(opencv_display_format)
    IF opencv_display_format \notin get_convertible_formats(fmt)
        THEN "ValueError:convert_pixel_format"
    \* np.frombuffer(frame.get_buffer(), dtype=np.uint16)
    ELSE IF buffer_size % 2 # 0
        THEN "ValueError:frombuffer"
    \* frame.get_buffer_size() != width * height * 2
    ELSE IF buffer_size # width * height * 2
        THEN "ValueError:size_mismatch"
    \* bayer_raw_data.size != width * height
    ELSE IF buffer_size \div 2 # width * height
        THEN "ValueError:sample_mismatch"
    \* bayer_image_16bit[0, 0], [100, 100], [200, 200]
    ELSE IF ~(height > 200 /\ width > 200)
        THEN "IndexError"
    ELSE "ok"

\* frame geometries of the tiff runs: width, height, buffer size in bytes
Geometries ==
    { [width |-> 201, height |-> 201, buffer_size |-> 80802],
      [width |-> 2,   height |-> 2,   buffer_size |-> 8],
      [width |-> 2,   height |-> 2,   buffer_size |-> 7],
      [width |-> 2,   height |-> 2,   buffer_size |-> 6] }

\* geometry of the tiff run with Bgr8 frames, 3 bytes per pixel
BgrGeometry == [width |-> 201, height |-> 201, buffer_size |-> 121203]

\* width.set(64); height.set(64) of the roi script, 3 bytes per pixel
RoiGeometry == [width |-> 64, height |-> 64, buffer_size |-> 12288]

\* ---------------------------------------------------------------- state
VARIABLES
    script,          \* "roi" or "tiff": the entry point that runs
    cam_formats,     \* cam.get_pixel_formats()
    pixel_format,    \* the camera's current pixel format
    geometry,        \* width, height and buffer size of the frames
    set_calls,       \* the formats handed to cam.set_pixel_format, in order
    mainPc,          \* position of the main thread
    mainFrame,       \* roi: the frame the consumer loop holds (0: none)
    loopExit,        \* how main left the streaming section: "", "ENTER", "exception"
    exit_code,       \* process exit code (-1: still running)
    streaming,       \* "idle", "on", "stopping", "off"
    captureQueue,    \* frames queued for capture at the driver, in order
    lent,            \* frames delivered and not yet given back by cam.queue_frame
    capPc,           \* position of the capture thread in Handler.__call__
    cb,              \* the callback invocation in progress
    display_queue,   \* roi: Handler.display_queue
    putLog,          \* every frame put on display_queue, in order
    getLog,          \* every frame returned by get_image, in order
    shutdown_event,  \* tiff: Handler.shutdown_event
    keyBuffer,       \* key event waiting for the next cv2.waitKey
    nDelivered,      \* frame events so far
    nBad,            \* frame events with a status other than Complete so far
    nKeys,           \* keys pressed so far
    fileOpen,        \* roi: output.txt is open
    fileLines,       \* roi: lines written to output.txt
    mean_value,      \* roi: the image np.mean read in the consumer loop (0: none)
    buffers,         \* the image each frame buffer holds (0: none captured yet)
    camCalls,        \* main's calls of setup_pixel_format and of the camera's
                     \* start_streaming and stop_streaming, in order
    shown,           \* pixel formats of the images passed to cv2.imshow
    argv,            \* sys.argv[1:]
    cameras,         \* ids of the cameras the system enumerates, in order
    cam_id,          \* the value parse_args returned
    cam,             \* the camera get_camera returned
    usage,           \* print_usage() was called
    features,        \* setup_camera: how each camera feature behaves
    applied,         \* setup_camera: the features that were set or run
    rawIn,           \* raw conversion: the frame handed to it
    rawOut,          \* raw conversion: its result
    expIdx,          \* dark current: entries of expArray done
    exposures,       \* dark current: the values set on ExposureTime, in order
    expAvgVal,       \* dark current: the exposure of every frame averaged, in order
    timeouts,        \* dark current: frame waits that timed out
    fit              \* dark current: the series x and y handed to polyfit

vars == << script, cam_formats, pixel_format, geometry, set_calls, mainPc, mainFrame,
           loopExit, exit_code, streaming, captureQueue, lent, capPc, cb,
           display_queue, putLog, getLog, shutdown_event, keyBuffer,
           nDelivered, nBad, nKeys, fileOpen, fileLines, mean_value, buffers,
           camCalls, shown,
           argv, cameras, cam_id, cam, usage, features, applied, rawIn, rawOut,
           expIdx, exposures, expAvgVal, timeouts, fit >>

mainVars == << mainPc, mainFrame, loopExit, exit_code >>
camVars == << cam_formats, pixel_format, geometry, set_calls >>
queueVars == << display_queue, putLog, getLog >>
fileVars == << fileOpen, fileLines, mean_value >>
countVars == << nDelivered, nBad, nKeys, buffers >>
logVars == << camCalls, shown >>
argVars == << argv, cameras, cam_id, cam, usage >>
featVars == << features, applied >>
rawVars == << rawIn, rawOut >>
darkVars == << expIdx, exposures, expAvgVal, timeouts, fit >>

\* dark current: polyfit has not been reached
NoFit == [x |-> <<>>, y |-> <<>>]
\* the state of the parts of the scripts that do not stream
otherVars == << argVars, featVars, rawVars, darkVars >>

None == "None"

\* parse_args and get_camera are done: no argument, the first camera is used
ArgsDone ==
    /\ argv = <<>>
    /\ cameras = <<"DEV_1">>
    /\ cam_id = None
    /\ cam = "DEV_1"
    /\ usage = FALSE

\* setup_camera is done on a camera that has every feature
FeaturesDone ==
    /\ features = <<>>
    /\ applied = {}

\* no frame handed to the raw conversion, no result of it
NoFrame == [width |-> 0, height |-> 0, samples |-> <<>>, extra |-> 0]
NoResult == [exc |-> "", message |-> <<>>, grid |-> <<>>, shifted |-> <<>>]

\* no raw conversion runs on its own
RawIdle ==
    /\ rawIn = NoFrame
    /\ rawOut = NoResult

\* the dark current script does not run
DarkIdle ==
    /\ expIdx = 0
    /\ exposures = <<>>
    /\ expAvgVal = <<>>
    /\ timeouts = 0
    /\ fit = NoFit

Frames == 1..BufferCount

\* no callback in progress
NoCb == [frame |-> 0, status |-> "", did |-> {}, requeues |-> 0,
         afterShutdown |-> FALSE, exc |-> ""]

\* the shutdown signal has been observed: tiff, the callback set
\* shutdown_event; roi, the consumer loop read ENTER and left the loop
ShutdownObserved == shutdown_event \/ loopExit = "ENTER"

RECURSIVE Iota(_)
\* <<1, ..., n>>
Iota(n) == IF n = 0 THEN <<>> ELSE Iota(n - 1) \o <<n>>

\* camera format lists of the streaming runs
RoiStreamFormats ==
    { <<"Bgr8">>, <<"BayerRG12">>, <<"Mono8">>, <<"Mono10", "Mono12", "Mono8">> }
TiffStreamFormats == { <<"Bgr8">>, <<"BayerRG12">> }

InitCommon ==
    /\ set_calls = <<>>
    /\ mainFrame = 0
    /\ loopExit = ""
    /\ exit_code = -1
    /\ streaming = "idle"
    /\ captureQueue = <<>>
    /\ lent = {}
    /\ capPc = "idle"
    /\ cb = NoCb
    /\ display_queue = <<>>
    /\ putLog = <<>>
    /\ getLog = <<>>
    /\ shutdown_event = FALSE
    /\ keyBuffer = NoKey
    /\ nDelivered = 0
    /\ nBad = 0
    /\ nKeys = 0
    /\ fileLines = <<>>
    /\ mean_value = 0
    /\ buffers = [f \in Frames |-> 0]
    /\ camCalls = <<>>
    /\ shown = {}

\* main() of the roi script without its call of setup_pixel_format
Init_without_setup ==
    /\ InitCommon
    /\ ArgsDone /\ FeaturesDone /\ RawIdle /\ DarkIdle
    /\ script \in {"roi", "tiff"}
    /\ cam_formats \in IF script = "roi" THEN RoiStreamFormats ELSE TiffStreamFormats
    /\ geometry \in IF script = "roi" THEN {RoiGeometry}
                     ELSE IF cam_formats = <<opencv_display_format>>
                          THEN {BgrGeometry} ELSE Geometries
    /\ mainPc = "start_streaming"
    /\ fileOpen = (script = "roi")
    /\ pixel_format = cam_formats[1]

\* roi: main() up to line 239, file opened, camera opened, setup_camera done.
\* tiff: main() up to line 241; setup_pixel_format is not called there.
Init ==
    /\ InitCommon
    /\ ArgsDone /\ FeaturesDone /\ RawIdle /\ DarkIdle
    /\ script \in {"roi", "tiff"}
    /\ IF script = "roi"
          THEN /\ cam_formats \in RoiStreamFormats
               /\ geometry = RoiGeometry
               /\ mainPc = "setup_pixel_format"
               /\ fileOpen = TRUE
          ELSE /\ cam_formats \in TiffStreamFormats
               /\ geometry \in IF cam_formats = <<opencv_display_format>>
                                THEN {BgrGeometry} ELSE Geometries
               /\ mainPc = "start_streaming"
               /\ fileOpen = FALSE
    /\ pixel_format = cam_formats[1]



\* ------------------------------------------------------------ queue.Queue
\* a put that lets one item more than the capacity in
queue_can_put_off_by_one(q) == Len(q) <= QueueSize

\* Queue(10).put(item, True) goes on only while the queue is not full
queue_can_put(q) == Len(q) < QueueSize

\* a get that takes the newest item instead of the oldest
get_image_lifo(q) == [frame |-> q[Len(q)], queue |-> SubSeq(q, 1, Len(q) - 1)]

\* display_queue.get(True): the item returned and the queue left behind
get_image(q) == [frame |-> Head(q), queue |-> Tail(q)]

\* Frame.as_opencv_image() accepts these formats only
OPENCV_PIXEL_FORMATS == {"Mono8", "Bgr8"}

\* ------------------------------------------------------------ keyboard
\* the user presses a key while the stream runs; it waits for cv2.waitKey
PressKey ==
    /\ streaming = "on"
    /\ keyBuffer = NoKey
    /\ nKeys < MaxKeyPresses
    /\ \E k \in Keys \ {NoKey} : keyBuffer' = k
    /\ nKeys' = nKeys + 1
    /\ UNCHANGED << otherVars, logVars, script, camVars, mainVars, streaming, captureQueue, lent,
                    capPc, cb, queueVars, shutdown_event, nDelivered, nBad, buffers,
                    fileVars >>

\* ------------------------------------------------------------ main thread
\* setup_pixel_format(cam)
setup_pixel_format ==
    /\ mainPc = "setup_pixel_format"
    /\ LET out == IF script = "roi" THEN setup_pixel_format_roi(cam_formats)
                  ELSE setup_pixel_format_tiff(cam_formats)
       IN  /\ pixel_format' = IF out.result = "ok" THEN out.set ELSE pixel_format
           /\ set_calls' = IF out.result = "ok" THEN Append(set_calls, out.set)
                           ELSE set_calls
           /\ mainPc' = CASE out.result = "ok" -> "start_streaming"
                          [] out.result = "abort" -> "aborted"
                          [] OTHER -> "crashed"
           /\ exit_code' = IF out.result = "ok" THEN exit_code ELSE 1
    /\ camCalls' = Append(camCalls, "setup_pixel_format")
    /\ UNCHANGED << otherVars, shown, script, cam_formats, geometry, mainFrame, loopExit, streaming,
                    captureQueue, lent, capPc, cb, queueVars, shutdown_event,
                    keyBuffer, countVars, fileVars >>

\* cam.start_streaming(handler=handler, buffer_count=10)
start_streaming ==
    /\ mainPc = "start_streaming"
    /\ streaming' = "on"
    /\ captureQueue' = Iota(BufferCount)
    /\ mainPc' = IF script = "roi" THEN "waitKey" ELSE "wait"
    /\ camCalls' = Append(camCalls, "start_streaming")
    /\ UNCHANGED << otherVars, shown, script, camVars, mainFrame, loopExit, exit_code, lent, capPc,
                    cb, queueVars, shutdown_event, keyBuffer, countVars, fileVars >>

\* roi, lines 250-253: key = cv2.waitKey(1); ENTER leaves the loop
main_waitKey ==
    /\ script = "roi"
    /\ mainPc = "waitKey"
    /\ keyBuffer' = NoKey
    /\ IF keyBuffer = ENTER_KEY_CODE
          THEN /\ loopExit' = "ENTER"
               /\ mainPc' = "finally"
          ELSE /\ loopExit' = loopExit
               /\ mainPc' = "get_image"
    /\ UNCHANGED << otherVars, logVars, script, camVars, mainFrame, exit_code, streaming, captureQueue,
                    lent, capPc, cb, queueVars, shutdown_event, countVars, fileVars >>

\* roi, line 255: frame = handler.get_image(), blocks while the queue is empty
main_get_image ==
    /\ script = "roi"
    /\ mainPc = "get_image"
    /\ display_queue # <<>>
    /\ LET got == get_image(display_queue)
       IN  /\ mainFrame' = got.frame
           /\ display_queue' = got.queue
           /\ getLog' = Append(getLog, got.frame)
    /\ mainPc' = "process"
    /\ UNCHANGED << otherVars, logVars, script, camVars, loopExit, exit_code, streaming, captureQueue,
                    lent, capPc, cb, putLog, shutdown_event, keyBuffer, countVars,
                    fileVars >>

\* roi, lines 257-269: convert if needed, img_opencv = frame.as_opencv_image(),
\* img_numpy = frame.as_numpy_ndarray() (both are views of the frame's buffer,
\* no copy), mean_value = np.mean(img_numpy)
main_process ==
    /\ script = "roi"
    /\ mainPc = "process"
    /\ IF pixel_format \in OPENCV_PIXEL_FORMATS
          THEN /\ mean_value' = buffers[mainFrame]
               /\ mainFrame' = mainFrame
               /\ loopExit' = loopExit
               /\ mainPc' = "write"
          ELSE \* frame.as_opencv_image() raises ValueError
               /\ mean_value' = 0
               /\ mainFrame' = 0
               /\ loopExit' = "exception"
               /\ mainPc' = "finally"
    /\ UNCHANGED << otherVars, logVars, script, camVars, exit_code, streaming,
                    captureQueue, lent, capPc, cb, queueVars, shutdown_event,
                    keyBuffer, countVars, fileOpen, fileLines >>

\* roi, lines 270-279: total_sum = np.sum(img_numpy), read from the buffer as
\* it is now; file.write(f"{mean_value},{total_sum}\n"); cv2.imshow
main_write ==
    /\ script = "roi"
    /\ mainPc = "write"
    /\ fileLines' = Append(fileLines, [frame |-> mainFrame, mean |-> mean_value,
                                       sum |-> buffers[mainFrame]])
    \* cv2.imshow(..., img_opencv) with img_opencv = frame.as_opencv_image()
    /\ shown' = shown \cup {pixel_format}
    /\ mean_value' = 0
    /\ mainFrame' = 0
    /\ mainPc' = "waitKey"
    /\ UNCHANGED << otherVars, camCalls, script, camVars, loopExit, exit_code, streaming,
                    captureQueue, lent, capPc, cb, queueVars, shutdown_event,
                    keyBuffer, countVars, fileOpen >>

\* tiff, line 246: handler.shutdown_event.wait()
main_wait ==
    /\ script = "tiff"
    /\ mainPc = "wait"
    /\ shutdown_event
    /\ mainPc' = "finally"
    /\ UNCHANGED << otherVars, logVars, script, camVars, mainFrame, loopExit, exit_code, streaming,
                    captureQueue, lent, capPc, cb, queueVars, shutdown_event,
                    keyBuffer, countVars, fileVars >>

\* an exception in the streaming section that unwinds main without a finally
\* block
main_raise_without_finally ==
    /\ mainPc \in {"waitKey", "get_image", "process", "write", "wait"}
    /\ loopExit' = "exception"
    /\ mainFrame' = 0
    /\ mean_value' = 0
    /\ mainPc' = "crashed"
    /\ exit_code' = 1
    /\ UNCHANGED << otherVars, logVars, script, camVars, streaming,
                    captureQueue, lent, capPc, cb, queueVars, shutdown_event,
                    keyBuffer, countVars, fileOpen, fileLines >>

\* an exception reaches main inside the try block (KeyboardInterrupt, an
\* error of cv2 or numpy): roi, at any step of the consumer loop; tiff, in
\* shutdown_event.wait(). The finally block runs next.
main_raise ==
    /\ mainPc \in {"waitKey", "get_image", "process", "write", "wait"}
    /\ loopExit' = "exception"
    /\ mainFrame' = 0
    /\ mean_value' = 0
    /\ mainPc' = "finally"
    /\ UNCHANGED << otherVars, logVars, script, camVars, exit_code, streaming,
                    captureQueue, lent, capPc, cb, queueVars, shutdown_event,
                    keyBuffer, countVars, fileOpen, fileLines >>

\* finally: file.close() (roi); cam.stop_streaming() stops the acquisition ...
stop_streaming_begin ==
    /\ mainPc = "finally"
    /\ fileOpen' = FALSE
    /\ streaming' = "stopping"
    /\ mainPc' = "stop_streaming"
    /\ camCalls' = Append(camCalls, "stop_streaming")
    /\ UNCHANGED << otherVars, shown, script, camVars, mainFrame, loopExit, exit_code, captureQueue,
                    lent, capPc, cb, queueVars, shutdown_event, keyBuffer, countVars,
                    fileLines, mean_value >>

\* ... and returns once no callback is running
stop_streaming_end ==
    /\ mainPc = "stop_streaming"
    /\ capPc = "idle"
    /\ streaming' = "off"
    /\ IF loopExit = "exception"
          THEN mainPc' = "crashed" /\ exit_code' = 1
          ELSE mainPc' = "done" /\ exit_code' = 0
    /\ UNCHANGED << otherVars, logVars, script, camVars, mainFrame, loopExit, captureQueue, lent, capPc,
                    cb, queueVars, shutdown_event, keyBuffer, countVars, fileVars >>

\* --------------------------------------------------------- capture thread
\* The driver fills the head of its capture queue and calls
\* Handler.__call__(cam, stream, frame).
\* roi, line 205: a Complete frame goes on to the put, any other to queue_frame.
\* tiff, line 153: the callback starts with cv2.waitKey(1).
frame_callback ==
    /\ streaming = "on"
    /\ capPc = "idle"
    /\ captureQueue # <<>>
    /\ nDelivered < MaxFrames
    /\ \E status \in FrameStatus :
        /\ status # Complete => nBad < MaxBadFrames
        /\ nBad' = IF status = Complete THEN nBad ELSE nBad + 1
        /\ cb' = [frame |-> Head(captureQueue), status |-> status, did |-> {},
                  requeues |-> 0, afterShutdown |-> ShutdownObserved, exc |-> ""]
        /\ capPc' = IF script = "tiff" THEN "waitKey"
                    ELSE IF status = Complete THEN "put" ELSE "queue_frame"
    /\ lent' = lent \cup {Head(captureQueue)}
    /\ captureQueue' = Tail(captureQueue)
    /\ nDelivered' = nDelivered + 1
    /\ buffers' = [buffers EXCEPT ![Head(captureQueue)] = nDelivered + 1]
    /\ UNCHANGED << otherVars, logVars, script, camVars, mainVars, streaming, queueVars, shutdown_event,
                    keyBuffer, nKeys, fileVars >>

\* roi, line 220: self.display_queue.put(display, True) with display = frame
Handler_put ==
    /\ script = "roi"
    /\ capPc = "put"
    /\ queue_can_put(display_queue)
    /\ display_queue' = Append(display_queue, cb.frame)
    /\ putLog' = Append(putLog, cb.frame)
    /\ cb' = [cb EXCEPT !.did = @ \cup {"put"}]
    /\ capPc' = "queue_frame"
    /\ UNCHANGED << otherVars, logVars, script, camVars, mainVars, streaming, captureQueue, lent, getLog,
                    shutdown_event, keyBuffer, countVars, fileVars >>

\* tiff, lines 153-158: ENTER sets shutdown_event and returns
Handler_waitKey ==
    /\ script = "tiff"
    /\ capPc = "waitKey"
    /\ keyBuffer' = NoKey
    /\ IF keyBuffer = ENTER_KEY_CODE
          THEN /\ shutdown_event' = TRUE
               /\ capPc' = "return"
          ELSE /\ shutdown_event' = shutdown_event
               /\ capPc' = IF cb.status = Complete THEN "process" ELSE "queue_frame"
    /\ UNCHANGED << otherVars, logVars, script, camVars, mainVars, streaming, captureQueue, lent, cb,
                    queueVars, countVars, fileVars >>

\* tiff, lines 159-226: a Bgr8 frame is shown as it is; any other is converted,
\* demosaiced and saved first, and an exception ends the callback
Handler_process ==
    /\ script = "tiff"
    /\ capPc = "process"
    /\ IF pixel_format = opencv_display_format
          THEN /\ cb' = [cb EXCEPT !.did = @ \cup {"imshow"}]
               \* display = frame
               /\ shown' = shown \cup {pixel_format}
               /\ capPc' = "queue_frame"
          ELSE LET out == RawConversion(pixel_format, geometry.width,
                                        geometry.height, geometry.buffer_size)
               IN  IF out = "ok"
                      THEN /\ cb' = [cb EXCEPT !.did = @ \cup
                                        {"convert", "demosaic", "save", "imshow"}]
                           \* display = frame.convert_pixel_format(opencv_display_format)
                           /\ shown' = shown \cup {opencv_display_format}
                           /\ capPc' = "queue_frame"
                      ELSE /\ cb' = [cb EXCEPT
                                        !.did = IF out = "ValueError:convert_pixel_format"
                                                THEN @ ELSE @ \cup {"convert"},
                                        !.exc = out]
                           /\ shown' = shown
                           /\ capPc' = "return"
    /\ UNCHANGED << otherVars, camCalls, script, camVars, mainVars, streaming, captureQueue, lent,
                    queueVars, shutdown_event, keyBuffer, countVars, fileVars >>

\* roi line 222, tiff line 228: cam.queue_frame(frame)
queue_frame ==
    /\ capPc = "queue_frame"
    /\ captureQueue' = Append(captureQueue, cb.frame)
    /\ lent' = lent \ {cb.frame}
    /\ cb' = [cb EXCEPT !.requeues = @ + 1]
    /\ capPc' = "return"
    /\ UNCHANGED << otherVars, logVars, script, camVars, mainVars, streaming, queueVars, shutdown_event,
                    keyBuffer, countVars, fileVars >>

\* the callback invocation ends and the capture thread goes back to the driver
Handler_return ==
    /\ capPc = "return"
    /\ capPc' = "idle"
    /\ cb' = NoCb
    /\ UNCHANGED << otherVars, logVars, script, camVars, mainVars, streaming, captureQueue, lent,
                    queueVars, shutdown_event, keyBuffer, countVars, fileVars >>

\* ------------------------------------------------------------ specification
MainNext ==
    \/ setup_pixel_format
    \/ start_streaming
    \/ main_waitKey
    \/ main_get_image
    \/ main_process
    \/ main_write
    \/ main_wait
    \/ stop_streaming_begin
    \/ stop_streaming_end

CallbackNext ==
    \/ Handler_put
    \/ Handler_waitKey
    \/ Handler_process
    \/ queue_frame
    \/ Handler_return

Next ==
    \/ PressKey
    \/ main_raise
    \/ frame_callback
    \/ setup_pixel_format
    \/ start_streaming
    \/ main_waitKey
    \/ main_get_image
    \/ main_process
    \/ main_write
    \/ main_wait
    \/ stop_streaming_begin
    \/ stop_streaming_end
    \/ Handler_put
    \/ Handler_waitKey
    \/ Handler_process
    \/ queue_frame
    \/ Handler_return

Spec == Init /\ [][Next]_vars

\* the threads keep running: the main thread and a callback in progress take
\* their next step whenever they can
FairSpec == Spec /\ WF_vars(MainNext) /\ WF_vars(CallbackNext)

TypeOK ==
    /\ script \in {"roi", "tiff", "dark"}
    /\ Len(display_queue) \in 0..(QueueSize + 1)
    /\ lent \subseteq Frames
    /\ keyBuffer \in Keys
    /\ nDelivered \in 0..MaxFrames


\* ------------------------------------------- setup_pixel_format on its own
\* every tuple of at most n different formats
RECURSIVE FormatLists(_)
FormatLists(n) ==
    IF n = 0 THEN { <<>> }
    ELSE LET shorter == FormatLists(n - 1)
         IN  shorter \cup { Append(l, f) : l \in shorter, f \in PixelFormat }

NoDuplicates(l) == \A i, j \in 1..Len(l) : l[i] = l[j] => i = j

\* setup_pixel_format of either script is about to run on a camera with any
\* list of at most MaxFormats formats
InitFormat ==
    /\ InitCommon
    /\ ArgsDone /\ FeaturesDone /\ RawIdle /\ DarkIdle
    /\ script \in {"roi", "tiff"}
    /\ cam_formats \in { l \in FormatLists(MaxFormats) : NoDuplicates(l) }
    /\ pixel_format = IF cam_formats = <<>> THEN NoFormat ELSE cam_formats[1]
    /\ geometry = RoiGeometry
    /\ mainPc = "setup_pixel_format"
    /\ fileOpen = (script = "roi")

NextFormat == setup_pixel_format

SpecFormat == InitFormat /\ [][NextFormat]_vars


\* ------------------------------------------------------------------ claims
IsPrefix(s, t) == Len(s) <= Len(t) /\ SubSeq(t, 1, Len(s)) = s

\* C1: when a callback invocation ends (by return or by an exception), its
\* frame has been passed to cam.queue_frame exactly once, whatever the
\* status, the key polled, the pixel format branch or the error.
C1_RequeuedExactlyOnce ==
    capPc = "return" => cb.requeues = 1

\* C2: roi: every frame that sits in display_queue or is held by the
\* consumer loop is still lent to the application (not given back to the
\* driver with cam.queue_frame).
C2_ConsumerFramesLent ==
    script = "roi" =>
        /\ \A i \in 1..Len(display_queue) : display_queue[i] \in lent
        /\ mainFrame # 0 => mainFrame \in lent

\* C3: a callback invocation for a frame whose status is not Complete ends
\* with no conversion, display, file write or enqueue done and with the frame
\* given back by cam.queue_frame.
C3_BadFrameOnlyRequeued ==
    (capPc = "return" /\ cb.status # Complete) =>
        (cb.did = {} /\ cb.requeues = 1 /\ cb.frame \notin lent)

\* C4: roi: ENTER pressed while the consumer loop is blocked in get_image()
\* on an empty display_queue, with no further frame arriving, leads to the
\* loop leaving on ENTER and main finishing.
C4_BlockedConsumerWakes ==
    (/\ script = "roi"
     /\ mainPc = "get_image"
     /\ display_queue = <<>>
     /\ keyBuffer = ENTER_KEY_CODE
     /\ capPc = "idle"
     /\ nDelivered = MaxFrames)
    ~> (loopExit = "ENTER" /\ mainPc = "done")

\* C5: roi: once the consumer loop has left on ENTER, the callback invocation
\* in progress ends with its frame requeued and cam.stop_streaming()
\* completes.
C5_CallbacksCompleteAfterExit ==
    (script = "roi" /\ loopExit = "ENTER")
    ~> (capPc = "idle" /\ lent = {} /\ mainPc = "done")

\* C6: a frame delivered to the callback after the shutdown signal was
\* observed is not converted, displayed, saved or put on the queue.
C6_NoWorkAfterShutdown ==
    cb.afterShutdown => cb.did = {}

\* C7: roi: display_queue never holds more than 10 frames, and while it is
\* full a put neither grows it nor drops an item: the only change is a pop.
C7_QueueBounded ==
    /\ [](Len(display_queue) <= QueueSize)
    /\ [][Len(display_queue) = QueueSize =>
            /\ putLog' = putLog
            /\ display_queue' \in {display_queue, Tail(display_queue)}]_vars

\* C7 witness: the queue is full and a callback waits in put
C7_Witness ==
    /\ script = "roi"
    /\ Len(display_queue) = QueueSize
    /\ capPc = "put"

\* C8: roi: the frames returned by get_image() are, in order, a prefix of the
\* frames put on display_queue, and the frames put and not yet returned are
\* exactly the queue's content.
C8_Fifo ==
    /\ IsPrefix(getLog, putLog)
    /\ putLog = getLog \o display_queue

\* C8 witness: several different frames were returned and more are waiting
C8_Witness ==
    /\ Len(getLog) >= 3
    /\ getLog[1] # getLog[2]
    /\ Len(display_queue) >= 2

\* the selection the first-match rule prescribes for a list of camera formats
FirstMatch(fmts) ==
    LET color == SeqFilter(fmts, {f \in COLOR_PIXEL_FORMATS :
                                    opencv_display_format \in get_convertible_formats(f)})
        mono == SeqFilter(fmts, {f \in MONO_PIXEL_FORMATS :
                                    opencv_display_format \in get_convertible_formats(f)})
    IN  IF opencv_display_format \in Range(fmts) THEN <<opencv_display_format>>
        ELSE IF color # <<>> THEN <<color[1]>>
        ELSE IF mono # <<>> THEN <<mono[1]>>
        ELSE <<>>

\* C9: setup_pixel_format sets the first match: Bgr8 if the camera has it,
\* else the camera's first color format convertible to Bgr8, else its first
\* convertible mono format.
C9_FirstMatchSelected ==
    mainPc # "setup_pixel_format" => set_calls = FirstMatch(cam_formats)

\* C10: when Bgr8 is in the camera's list, setup_pixel_format sets Bgr8 and
\* nothing else, and goes on to streaming.
C10_TargetPreferred ==
    (mainPc # "setup_pixel_format" /\ opencv_display_format \in Range(cam_formats)) =>
        (set_calls = <<opencv_display_format>> /\ pixel_format = opencv_display_format
         /\ mainPc = "start_streaming")

\* C10 witness: Bgr8 comes last, after a convertible mono and a convertible
\* color format
C10_Witness ==
    /\ mainPc = "start_streaming"
    /\ cam_formats = <<"Mono8", "BayerRG12", "Bgr8">>
    /\ set_calls = <<"Bgr8">>


\* ------------------------------------- setup_pixel_format and start_streaming
\* main() of the roi script from setup_pixel_format to start_streaming, on a
\* camera with any list of at most MaxFormats formats
InitSetup == InitFormat /\ script = "roi"

NextSetup ==
    \/ setup_pixel_format
    \/ start_streaming

SpecSetup == InitSetup /\ [][NextSetup]_vars

\* the number of entries of the call log that are the call c
RECURSIVE Count(_, _)
Count(log, c) ==
    IF log = <<>> THEN 0
    ELSE (IF Head(log) = c THEN 1 ELSE 0) + Count(Tail(log), c)

\* the camera has neither the display format nor a format convertible to it
NoUsableFormat(fmts) ==
    \A i \in 1..Len(fmts) :
        /\ fmts[i] # opencv_display_format
        /\ opencv_display_format \notin get_convertible_formats(fmts[i])

\* C11: on a camera without the display format and without a color or mono
\* format convertible to it, setup_pixel_format ends the process with exit
\* code 1, sets no pixel format, and start_streaming is never called.
C11_AbortWithoutStream ==
    (NoUsableFormat(cam_formats) /\ mainPc # "setup_pixel_format") =>
        /\ mainPc = "aborted"
        /\ exit_code = 1
        /\ set_calls = <<>>
        /\ Count(camCalls, "start_streaming") = 0
        /\ streaming = "idle"

\* C11 witness: the camera has two formats, none usable, and setup aborted
C11_Witness ==
    /\ cam_formats = <<"Yuv411", "Mono14">>
    /\ mainPc = "aborted"
    /\ exit_code = 1

\* C13: once start_streaming was called, main ends (returns or unwinds) only
\* after exactly one stop_streaming call, and stop_streaming is never called
\* twice or without a start.
C13_StopExactlyOnce ==
    /\ Count(camCalls, "stop_streaming") <= 1
    /\ Count(camCalls, "stop_streaming") <= Count(camCalls, "start_streaming")
    /\ (mainPc \in {"done", "crashed", "aborted"}
        /\ Count(camCalls, "start_streaming") > 0) =>
            Count(camCalls, "stop_streaming") = 1

\* C13 witness: the consumer loop was left by an exception after it had
\* handled a frame, and main unwound through stop_streaming
C13_Witness ==
    /\ script = "roi"
    /\ loopExit = "exception"
    /\ getLog # <<>>
    /\ mainPc = "crashed"
    /\ Count(camCalls, "stop_streaming") = 1

\* the call log begins with setup_pixel_format followed by start_streaming
StartsWithSetup(log) ==
    /\ Len(log) >= 2
    /\ log[1] = "setup_pixel_format"
    /\ log[2] = "start_streaming"

\* C17 as stated: in both streaming scripts setup_pixel_format has run
\* exactly once, before start_streaming, whenever the stream was started.
C17_SetupOnceBothScripts ==
    Count(camCalls, "start_streaming") > 0 =>
        /\ Count(camCalls, "setup_pixel_format") = 1
        /\ StartsWithSetup(camCalls)

\* C17: roi: setup_pixel_format runs at most once, and exactly once, before
\* start_streaming, whenever the stream is started; tiff: main never calls
\* setup_pixel_format.
C17_SetupOnceRoiOnly ==
    /\ Count(camCalls, "setup_pixel_format") <= 1
    /\ Count(camCalls, "start_streaming") <= 1
    /\ (script = "roi" /\ Count(camCalls, "start_streaming") > 0) =>
            StartsWithSetup(camCalls)
    /\ script = "tiff" => Count(camCalls, "setup_pixel_format") = 0

\* C17 witness: the roi stream runs after one setup_pixel_format
C17_Witness ==
    /\ script = "roi"
    /\ streaming = "on"
    /\ camCalls = <<"setup_pixel_format", "start_streaming">>
    /\ nDelivered > 0

\* C20: every image passed to cv2.imshow is in the display format Bgr8.
C20_ShownInDisplayFormat ==
    shown \subseteq {opencv_display_format}


\* ------------------------------------------------ parse_args and get_camera
\* parse_args(): exit is the code of sys.exit (-1: the function returns),
\* usage tells whether print_usage() ran, value is the value returned
ArgsOutcome(code, printed, value) == [exit |-> code, usage |-> printed, value |-> value]

\* parse_args that counts the arguments before it looks for -h
parse_args_count_first(args) ==
    IF Len(args) > 1 THEN ArgsOutcome(2, TRUE, None)
    ELSE IF \E i \in 1..Len(args) : args[i] \in {"/h", "-h"}
        THEN ArgsOutcome(0, TRUE, None)
    ELSE IF Len(args) = 0 THEN ArgsOutcome(-1, FALSE, None)
    ELSE ArgsOutcome(-1, FALSE, args[1])

\* roi lines 69-81, tiff lines 73-85, dark current lines 71-83
parse_args(args) ==
    IF \E i \in 1..Len(args) : args[i] \in {"/h", "-h"}
        THEN ArgsOutcome(0, TRUE, None)
    ELSE IF Len(args) > 1
        THEN ArgsOutcome(2, TRUE, None)
    ELSE IF Len(args) = 0 THEN ArgsOutcome(-1, FALSE, None)
    ELSE ArgsOutcome(-1, FALSE, args[1])

\* roi lines 84-98, tiff lines 88-102, dark current lines 86-100:
\* the camera returned, or None after abort(...) with exit code 1
get_camera(camera_id, cams) ==
    \* if camera_id: None and the empty string are false
    IF camera_id # None /\ camera_id # ""
        THEN IF camera_id \in Range(cams) THEN camera_id ELSE None
    ELSE IF cams = <<>> THEN None
    ELSE cams[1]

\* command line arguments and camera lists tried
Args == {"-h", "/h", "DEV_1", "DEV_9", ""}

RECURSIVE ArgLists(_)
ArgLists(n) ==
    IF n = 0 THEN { <<>> }
    ELSE LET shorter == ArgLists(n - 1)
         IN  shorter \cup { Append(l, a) : l \in shorter, a \in Args }

CameraLists == { <<>>, <<"DEV_1">>, <<"DEV_2", "DEV_1">> }

\* main() of any of the three scripts starts
InitArgs ==
    /\ InitCommon
    /\ FeaturesDone /\ RawIdle /\ DarkIdle
    /\ script \in {"roi", "tiff", "dark"}
    /\ argv \in ArgLists(MaxArgs)
    /\ cameras \in CameraLists
    /\ cam_id = None
    /\ cam = None
    /\ usage = FALSE
    /\ cam_formats = <<opencv_display_format>>
    /\ pixel_format = opencv_display_format
    /\ geometry = RoiGeometry
    /\ mainPc = "parse_args"
    /\ fileOpen = FALSE

\* cam_id = parse_args(); roi: file = open(file_name, "w")
main_parse_args ==
    /\ mainPc = "parse_args"
    /\ LET out == parse_args(argv)
       IN  /\ usage' = out.usage
           /\ cam_id' = out.value
           /\ exit_code' = IF out.exit = -1 THEN exit_code ELSE out.exit
           /\ mainPc' = IF out.exit = -1 THEN "get_camera"
                        ELSE IF out.exit = 0 THEN "exited" ELSE "aborted"
           /\ fileOpen' = (out.exit = -1 /\ script = "roi")
    /\ UNCHANGED << featVars, rawVars, darkVars, logVars, script, camVars, mainFrame,
                    loopExit, streaming, captureQueue, lent, capPc, cb, queueVars,
                    shutdown_event, keyBuffer, countVars, fileLines, mean_value, argv,
                    cameras,
                    cam >>

\* with get_camera(cam_id) as cam
main_get_camera ==
    /\ mainPc = "get_camera"
    /\ cam' = get_camera(cam_id, cameras)
    /\ IF cam' = None
          THEN mainPc' = "aborted" /\ exit_code' = 1
          ELSE mainPc' = "setup_camera" /\ exit_code' = exit_code
    /\ UNCHANGED << featVars, rawVars, darkVars, logVars, script, camVars, mainFrame,
                    loopExit, streaming, captureQueue, lent, capPc, cb, queueVars,
                    shutdown_event, keyBuffer, countVars, fileVars, argv, cameras,
                    cam_id, usage >>

NextArgs ==
    \/ main_parse_args
    \/ main_get_camera

SpecArgs == InitArgs /\ [][NextArgs]_vars

HelpAsked(args) == \E i \in 1..Len(args) : args[i] \in {"-h", "/h"}

\* C14: in every entry point, tried in this order: an argument -h or /h
\* prints the usage and exits with code 0; more than one argument exits with
\* code 2 after the usage; one argument is returned as the camera id; no
\* argument returns None, and then the first enumerated camera is used, or
\* the process exits with code 1 when no camera is found.
C14_CommandLine ==
    mainPc # "parse_args" =>
        IF HelpAsked(argv)
            THEN mainPc = "exited" /\ exit_code = 0 /\ usage
        ELSE IF Len(argv) > 1
            THEN mainPc = "aborted" /\ exit_code = 2 /\ usage
        ELSE IF Len(argv) = 1
            THEN cam_id = argv[1]
        ELSE /\ cam_id = None
             /\ mainPc # "get_camera" =>
                    IF cameras = <<>>
                        THEN mainPc = "aborted" /\ exit_code = 1
                        ELSE mainPc = "setup_camera" /\ cam = cameras[1]
                             /\ exit_code = -1

\* C14 witness: no argument, two cameras, the first one was taken
C14_Witness ==
    /\ argv = <<>>
    /\ cameras = <<"DEV_2", "DEV_1">>
    /\ mainPc = "setup_camera"
    /\ cam = "DEV_2"


\* ------------------------------------------------------------ setup_camera
\* the features setup_camera of the roi script adjusts
Features == {"ExposureAuto", "ExposureTime", "Width", "Height", "OffsetX",
             "OffsetY", "AcquisitionFrameRate", "GVSPAdjustPacketSize"}

\* a feature works ("ok"), is not there (the attribute access raises
\* AttributeError, get_feature_by_name raises VmbFeatureError) or refuses
\* the value or the command (set or run raises VmbFeatureError)
FeatureBehaviour == {"ok", "missing", "rejects"}

\* the steps of the three try blocks, in order: <<feature, operation>>
\* lines 105-109
ExposureAutoBlock == << <<"ExposureAuto", "lookup">>, <<"ExposureAuto", "set">> >>
\* lines 112-142
RoiBlock ==
    << <<"ExposureTime", "lookup">>, <<"ExposureTime", "set">>,
       <<"Width", "lookup">>, <<"Height", "lookup">>,
       <<"Width", "set">>, <<"Height", "set">>,
       <<"OffsetX", "lookup">>, <<"OffsetY", "lookup">>,
       <<"OffsetX", "set">>, <<"OffsetY", "set">>,
       <<"AcquisitionFrameRate", "lookup">>, <<"AcquisitionFrameRate", "set">> >>
\* lines 151-159
PacketSizeBlock ==
    << <<"GVSPAdjustPacketSize", "lookup">>, <<"GVSPAdjustPacketSize", "set">> >>

\* the step raises AttributeError or VmbFeatureError
StepRaises(step, feats) ==
    \/ step[2] = "lookup" /\ feats[step[1]] = "missing"
    \/ step[2] = "set" /\ feats[step[1]] # "ok"

RECURSIVE RunBlock(_, _)
\* try: the steps run in order until one raises; except: pass.
\* The result is the set of features whose set or run was called.
RunBlock(steps, feats) ==
    IF steps = <<>> THEN {}
    ELSE IF Head(steps)[2] = "lookup" /\ StepRaises(Head(steps), feats) THEN {}
    ELSE IF Head(steps)[2] = "set"
        THEN {Head(steps)[1]} \cup
             (IF StepRaises(Head(steps), feats) THEN {} ELSE RunBlock(Tail(steps), feats))
    ELSE RunBlock(Tail(steps), feats)

\* roi lines 101-159: the features whose set or run was called
setup_camera(feats) ==
    RunBlock(ExposureAutoBlock, feats) \cup RunBlock(RoiBlock, feats)
        \cup RunBlock(PacketSizeBlock, feats)

\* setup_camera(cam) of the roi script is about to run on a camera whose
\* features behave in any way
InitCamera ==
    /\ InitCommon
    /\ ArgsDone /\ RawIdle /\ DarkIdle
    /\ script = "roi"
    /\ features \in [Features -> FeatureBehaviour]
    /\ applied = {}
    /\ cam_formats = <<opencv_display_format>>
    /\ pixel_format = opencv_display_format
    /\ geometry = RoiGeometry
    /\ mainPc = "setup_camera"
    /\ fileOpen = TRUE

\* line 238: setup_camera(cam) returns whatever the features do
main_setup_camera ==
    /\ mainPc = "setup_camera"
    /\ applied' = setup_camera(features)
    /\ mainPc' = "setup_pixel_format"
    /\ UNCHANGED << argVars, rawVars, darkVars, logVars, script, camVars, mainFrame,
                    loopExit, exit_code, streaming, captureQueue, lent, capPc, cb,
                    queueVars, shutdown_event, keyBuffer, countVars, fileVars,
                    features >>

NextCamera ==
    \/ main_setup_camera
    \/ setup_pixel_format
    \/ start_streaming

SpecCamera == InitCamera /\ [][NextCamera]_vars

\* C19: roi: when exactly one feature fails, the adjustment of every other
\* feature is still attempted, setup_camera returns and streaming starts.
C19_OnlyFailingFeatureSkipped ==
    (mainPc # "setup_camera"
     /\ Cardinality({f \in Features : features[f] # "ok"}) = 1) =>
        /\ \A f \in Features : features[f] = "ok" => f \in applied
        /\ mainPc \notin {"aborted", "crashed"}


\* ------------------------------------------- raw conversion on its own
\* bayer_image_16bit[200, 200] is the farthest pixel the callback prints
ProbeIndex == 200

\* a frame for the raw conversion: width, height, the uint16 samples of its
\* buffer and the number of bytes after the last whole sample
get_buffer_size(frame) == 2 * Len(frame.samples) + frame.extra

\* bayer_raw_data.reshape((height, width)): row-major
reshape(samples, height, width) ==
    [r \in 1..height |-> [c \in 1..width |-> samples[(r - 1) * width + c]]]

\* a shift whose result is stored in 8 bits
shift_left_4_uint8(v) == (v * 16) % 256

\* (bayer_image_16bit << 4).astype(np.uint16), for one sample
shift_left_4(v) == (v * 16) % 65536

\* tiff lines 167-196 for a frame that is not Bgr8: the exception that ends the
\* callback (or "ok"), the expected and actual size of the size-mismatch
\* message, the reshaped samples and the shifted samples
RawConvert(fmt, frame) ==
    LET out == RawConversion(fmt, frame.width, frame.height, get_buffer_size(frame))
        grid == reshape(frame.samples, frame.height, frame.width)
    IN  [ exc |-> out,
          message |-> IF out = "ValueError:size_mismatch"
                      THEN <<frame.width * frame.height * 2, get_buffer_size(frame)>>
                      ELSE IF out = "ValueError:sample_mismatch"
                      THEN <<frame.width * frame.height, Len(frame.samples)>>
                      ELSE <<>>,
          grid |-> IF out \in {"ok", "IndexError"} THEN grid ELSE <<>>,
          shifted |-> IF out = "ok"
                      THEN [r \in 1..frame.height |->
                              [c \in 1..frame.width |-> shift_left_4(grid[r][c])]]
                      ELSE <<>> ]

\* widths and heights tried: small ones, and the smallest that has a pixel
\* [200, 200]
RawDims == (1..MaxSmallDim) \cup {ProbeIndex + 1}
\* sample i of a buffer is (base + step * i) % 65536
RawBases == {0, 4000, 65535}
RawSteps == {0, 1, 100}

\* the callback of the tiff script is about to convert a Complete BayerRG12
\* frame of some geometry: a buffer of exactly width*height samples, one byte
\* short, one sample short or one sample long
InitRaw ==
    /\ InitCommon
    /\ ArgsDone /\ FeaturesDone /\ DarkIdle
    /\ script = "tiff"
    /\ cam_formats = <<"BayerRG12">>
    /\ pixel_format = "BayerRG12"
    /\ geometry = BgrGeometry
    /\ mainPc = "wait"
    /\ fileOpen = FALSE
    /\ \E w \in RawDims, h \in RawDims, base \in RawBases, step \in RawSteps,
          short \in {<<0, 0>>, <<1, 1>>, <<1, 0>>, <<-1, 0>>} :
            rawIn = [ width |-> w, height |-> h,
                      samples |-> [i \in 1..(w * h - short[1]) |->
                                      (base + step * i) % 65536],
                      extra |-> short[2] ]
    /\ rawOut = NoResult

\* lines 167-196 run on the frame
raw_conversion ==
    /\ rawIn # NoFrame
    /\ rawOut = NoResult
    /\ rawOut' = RawConvert(pixel_format, rawIn)
    /\ UNCHANGED << argVars, featVars, darkVars, logVars, script, camVars, mainVars,
                    streaming, captureQueue, lent, capPc, cb, queueVars,
                    shutdown_event, keyBuffer, countVars, fileVars, rawIn >>

NextRaw == raw_conversion

SpecRaw == InitRaw /\ [][NextRaw]_vars

\* C12: a buffer whose length differs from width*height*2 (one byte short in
\* particular) ends the raw conversion with the size-mismatch ValueError,
\* whose message holds width*height*2 and the actual size; nothing is
\* reshaped.
C12_SizeMismatchRaised ==
    (rawOut # NoResult
     /\ get_buffer_size(rawIn) # rawIn.width * rawIn.height * 2) =>
        /\ rawOut.exc = "ValueError:size_mismatch"
        /\ rawOut.message = <<rawIn.width * rawIn.height * 2, get_buffer_size(rawIn)>>
        /\ rawOut.grid = <<>>

\* C15: a buffer of exactly width*height samples, width and height at least
\* 1, is reshaped row-major and every sample is shifted left by 4, without a
\* failure; [100,200,300,400] at 2x2 gives [[1600,3200],[4800,6400]].
C15_ReshapeAndShift ==
    (rawOut # NoResult
     /\ rawIn.extra = 0
     /\ Len(rawIn.samples) = rawIn.width * rawIn.height) =>
        /\ rawOut.exc = "ok"
        /\ \A r \in 1..rawIn.height, c \in 1..rawIn.width :
            /\ rawOut.grid[r][c] = rawIn.samples[(r - 1) * rawIn.width + c]
            /\ rawOut.shifted[r][c] = 16 * rawOut.grid[r][c]
        /\ rawIn.samples = <<100, 200, 300, 400>> =>
            rawOut.shifted = << <<1600, 3200>>, <<4800, 6400>> >>

expArray ==
    << 1, 10, 20, 50, 75, 100, 125, 150, 175, 200,
       300, 350, 400, 500, 600, 700, 800, 900, 1000, 1250,
       1500, 1700, 1800, 1900, 2000,
       2500, 3000, 3500, 4000, 4500,
       5000, 5500, 6000, 6500, 7000,
       7500, 8000, 8500, 9000, 9500, 9900 >>

\* main() of the dark current script is about to enter its loop (lines 140-161):
\* camera opened, Mono12 set, correction switched off
InitDark ==
    /\ InitCommon
    /\ ArgsDone /\ FeaturesDone /\ RawIdle /\ DarkIdle
    /\ script = "dark"
    /\ cam_formats = <<"Mono12">>
    /\ pixel_format = "Mono12"
    /\ geometry = RoiGeometry
    /\ mainPc = "for"
    /\ fileOpen = FALSE

\* lines 161-170: for exp in expArray: i = i + 1; feat.set(exp * 1000.000),
\* sleep;
\* after the last entry the loop ends
dark_set_exposure ==
    /\ script = "dark"
    /\ mainPc = "for"
    /\ IF expIdx < Len(expArray)
          THEN /\ expIdx' = expIdx + 1
               /\ exposures' = Append(exposures, expArray[expIdx + 1] * 1000)
               /\ mainPc' = "get_frame"
          ELSE /\ UNCHANGED << expIdx, exposures >>
               /\ mainPc' = "fit"
    /\ UNCHANGED << argVars, featVars, rawVars, logVars, script, camVars, mainFrame,
                    loopExit, exit_code, streaming, captureQueue, lent, capPc, cb,
                    queueVars, shutdown_event, keyBuffer, countVars, fileVars,
                    expAvgVal, timeouts, fit >>

\* lines 172-185: frame = cam.get_frame(timeout) gives a frame, whose average
\* is appended to expAvgVal, or raises VimbaTimeout, which nothing catches
dark_get_frame ==
    /\ script = "dark"
    /\ mainPc = "get_frame"
    /\ \E got \in BOOLEAN :
        IF got
            THEN /\ expAvgVal' = Append(expAvgVal, expArray[expIdx])
                 /\ mainPc' = "for"
                 /\ UNCHANGED << timeouts, exit_code >>
            ELSE /\ timeouts' = timeouts + 1
                 /\ mainPc' = "crashed"
                 /\ exit_code' = 1
                 /\ UNCHANGED expAvgVal
    /\ UNCHANGED << argVars, featVars, rawVars, logVars, script, camVars, mainFrame,
                    loopExit, streaming, captureQueue, lent, capPc, cb,
                    queueVars, shutdown_event, keyBuffer, countVars, fileVars,
                    expIdx, exposures, fit >>

\* lines 130-133: a = np.array(expArray)/1000; expSeconds = a.tolist():
\* every entry divided by 1000, kept as the fraction <<entry, 1000>>
expSeconds == [i \in 1..Len(expArray) |-> << expArray[i], 1000 >>]

\* s[n:] taken from the element of index n - 1
slice_from_previous(s, n) == IF n > Len(s) THEN <<>> ELSE SubSeq(s, n, Len(s))

\* the Python slice s[n:] for n >= 0: the elements of 0-based index n and up
slice_from(s, n) == IF n >= Len(s) THEN <<>> ELSE SubSeq(s, n + 1, Len(s))

\* lines 188-205: plot; x = expSeconds[25:] (line 134), y = expAvgVal[25:]
\* (line 195); polyfit(x, y, 1) raises for series of different lengths and
\* for empty ones; main returns
dark_fit ==
    /\ script = "dark"
    /\ mainPc = "fit"
    /\ LET x == slice_from(expSeconds, 25)
           y == slice_from(expAvgVal, 25)
       IN  /\ fit' = [x |-> x, y |-> y]
           /\ IF Len(x) = Len(y) /\ Len(x) > 0
                 THEN mainPc' = "done" /\ exit_code' = 0
                 ELSE mainPc' = "crashed" /\ exit_code' = 1
    /\ UNCHANGED << argVars, featVars, rawVars, logVars, script, camVars,
                    mainFrame, loopExit, streaming, captureQueue, lent, capPc, cb,
                    queueVars, shutdown_event, keyBuffer, countVars, fileVars,
                    expIdx, exposures, expAvgVal, timeouts >>

NextDark ==
    \/ dark_set_exposure
    \/ dark_get_frame
    \/ dark_fit

SpecDark == InitDark /\ [][NextDark]_vars

\* C18: dark current: after a timeout of cam.get_frame the run is not ended
\* by an unhandled error; it goes on with the remaining exposure steps.
C18_TimeoutRecoverable ==
    timeouts > 0 => (mainPc # "crashed" /\ exit_code # 1)

\* ------------------------------------------------------ roi: output.txt
\* the frames the lines of output.txt were written for, in order
LineFrames == [i \in 1..Len(fileLines) |-> fileLines[i].frame]

\* roi: the lines of output.txt follow the frames popped: one line per popped
\* frame, in pop order; only the frame popped last may have no line, while
\* it is being processed or when its processing ended in an exception
LinesFollowPops ==
    script = "roi" =>
        /\ IsPrefix(LineFrames, getLog)
        /\ Len(getLog) <= Len(fileLines) + 1
        /\ Len(getLog) > Len(fileLines) =>
              (mainPc \in {"process", "write"} \/ loopExit = "exception")

\* C21: roi: the lines written to output.txt are as many as the frames popped
\* from display_queue whose processing reached the write, they appear in the
\* order the frames were popped, and each line holds the mean and the sum of
\* one frame (of the same image).
C21_OneLinePerFrame ==
    /\ LinesFollowPops
    /\ \A i \in 1..Len(fileLines) : fileLines[i].mean = fileLines[i].sum

\* C22: in both streaming scripts a callback invocation does nothing with its
\* frame but classify its status, put it on the queue and requeue it:
\* no conversion, demosaicing, file saving or display on the capture thread.
C22_CallbackOnlyEnqueues ==
    cb.did \subseteq {"put"}

====
